---- MODULE Spec2Model ----
(***************************************************************************)
(* A model of mm.c: a segregated-free-list allocator over one growable     *)
(* arena.  The arena is a sequence of 8-byte words; word i lives at byte   *)
(* address HeapLo + 8*(i-1).  Headers, footers, class heads and link       *)
(* fields are words of the arena, holding what the C code stores in them   *)
(* (lengths with flag bits, absolute addresses, 0 for a null link).        *)
(***************************************************************************)
EXTENDS Integers, Sequences, FiniteSets, TLC

ALIGNMENT == 16
WORDSIZE == 8
NULL == 0

\* The number of size classes (class heads at the base of the arena).
NumClasses == 24
\* Words that mm_init asks the provider for: 24 heads, prologue, epilogue.
InitWords == 26

\* ---- the arena provider (memlib): the lowest address of the arena, and
\* ---- what a failing mem_sbrk returns, (void *)-1.
HeapLo == 4096
SbrkFailed == -1

\* ---- bounds of the model
\* Words the provider can hand out beyond mm_init's 26, per request menu.
SmallExtra == 10
RangeExtra == 68
FillExtra == 8
MoveExtra == 10
HugeExtra == 6
ListExtra == 20
BestExtra == 104
\* The calls the client of the best-fit scenario makes.
BestCalls == 9
ShrinkExtra == 16
ShrinkCalls == 7
\* How many allocations the client holds at once.
MaxLive == 3
\* The same for the client that fills a class list with three blocks.
ListLive == 5
\* The width of size_t and uint64_t in the model.  Sizes are unsigned and
\* every sum, product and difference of sizes is taken modulo 2^SizeBits, as
\* the C arithmetic is modulo 2^64; the class thresholds (256, 32768) lie
\* below 2^SizeBits as they lie below 2^64.
SizeBits == 16
SizeModulus == 2 ^ SizeBits
Wrap(x) == x % SizeModulus

VARIABLES
    mem,          \* the arena: a sequence of words
    initialized,  \* static bool initialized
    heap_start,   \* uint8_t *heap_start
    live,         \* client's view: the allocations it holds, [ptr, size]
    last,         \* the last call, its arguments and what it returned
    wild,         \* the engine has written, or handed out, what lies outside the arena
    menu,         \* the request sizes this client uses
    fill,         \* whether this client fills the blocks it is given
    cap,          \* the most words the provider will ever hand out
    hold,         \* the most allocations this client holds at once
    track,        \* whether the record of a malloc or free lists its unlinks
    budget        \* the calls this client may still make (negative: any number)

vars == <<mem, initialized, heap_start, live, last, wild, menu, fill, cap, hold, track,
          budget>>

\* ---- raw memory access (mem_memcpy / mem_memset of one word)
Idx(a) == (a - HeapLo) \div WORDSIZE + 1
Rd(m, a) == m[Idx(a)]
Wr(m, a, v) == [m EXCEPT ![Idx(a)] = v]
InArena(m, a) == a >= HeapLo /\ (a - HeapLo) % WORDSIZE = 0 /\ Idx(a) <= Len(m)

mem_heap_lo == HeapLo
mem_heap_hi(m) == HeapLo + WORDSIZE * Len(m) - 1

\* mem_sbrk(incr) with the provider's answer ok: the old break, or (void *)-1.
\* The provider never hands out more than cap words.
SbrkFits(m, incr, ok) == ok /\ Len(m) + incr \div WORDSIZE <= cap
mem_sbrk_ret(m, incr, ok) ==
    IF SbrkFits(m, incr, ok) THEN mem_heap_hi(m) + 1 ELSE SbrkFailed
mem_sbrk_mem(m, incr, ok) ==
    IF SbrkFits(m, incr, ok) THEN m \o [i \in 1..(incr \div WORDSIZE) |-> 0] ELSE m

\* ---- size arithmetic
\* (a slip: rounding to the word size instead of the alignment)
align_new_toWord(x) == WORDSIZE * ((x + WORDSIZE + WORDSIZE - 1) \div WORDSIZE) - WORDSIZE
align_new(x) ==
    Wrap(ALIGNMENT * (Wrap(x + WORDSIZE + ALIGNMENT - 1) \div ALIGNMENT) - WORDSIZE)

\* ---- block codec
getLength(m, ptr) == (Rd(m, ptr) \div WORDSIZE) * WORDSIZE
getLeftAllocated(m, ptr) == Rd(m, ptr) % 4 = 2 \/ Rd(m, ptr) % 4 = 3
getCurrAllocated(m, ptr) == Rd(m, ptr) % 2 = 1

\* space |= 0x1 ; space |= 0x2
OrBit0(x) == IF x % 2 = 0 THEN x + 1 ELSE x
OrBit1(x) == IF (x \div 2) % 2 = 0 THEN x + 2 ELSE x
Encode(length, currAllocated, leftAllocated) ==
    LET a == IF currAllocated THEN OrBit0(length) ELSE length
    IN  IF leftAllocated THEN OrBit1(a) ELSE a

construct_new(m, ptr, length, currAllocated, leftAllocated) ==
    Wr(m, ptr, Encode(length, currAllocated, leftAllocated))

setLeftAllocated(m, ptr, leftAllocated) ==
    construct_new(m, ptr, getLength(m, ptr), getCurrAllocated(m, ptr), leftAllocated)

\* ---- size classes
RECURSIVE CeilLog2From(_, _, _)
CeilLog2From(x, k, p) == IF p >= x THEN k ELSE CeilLog2From(x, k + 1, 2 * p)
CeilLog2(x) == CeilLog2From(x, 0, 1)

calculateClass_new(requiredBytes) ==
    LET aligned_to_16 == Wrap(requiredBytes + WORDSIZE)
    IN  IF aligned_to_16 <= 256 THEN Wrap(aligned_to_16 \div ALIGNMENT - 1)
        ELSE IF aligned_to_16 <= 32768 THEN CeilLog2(aligned_to_16) + 7
        ELSE 23

\* ---- free-list index
\* (a slip: a non-empty list's head is not moved to the inserted block)
insertIntoFreeList_headKept(m, class_addr, curr_addr) ==
    LET first_addr == Rd(m, class_addr)
    IN  IF first_addr # 0
        THEN LET m1 == Wr(m, first_addr + WORDSIZE, curr_addr)
                 m3 == Wr(m1, curr_addr + WORDSIZE, 0)
             IN  Wr(m3, curr_addr + 2 * WORDSIZE, first_addr)
        ELSE LET m1 == Wr(m, class_addr, curr_addr)
                 m2 == Wr(m1, curr_addr + WORDSIZE, 0)
             IN  Wr(m2, curr_addr + 2 * WORDSIZE, 0)

insertIntoFreeList(m, class_addr, curr_addr) ==
    LET first_addr == Rd(m, class_addr)
    IN  IF first_addr # 0
        THEN LET m1 == Wr(m, first_addr + WORDSIZE, curr_addr)
                 m2 == Wr(m1, class_addr, curr_addr)
                 m3 == Wr(m2, curr_addr + WORDSIZE, 0)
             IN  Wr(m3, curr_addr + 2 * WORDSIZE, first_addr)
        ELSE LET m1 == Wr(m, class_addr, curr_addr)
                 m2 == Wr(m1, curr_addr + WORDSIZE, 0)
             IN  Wr(m2, curr_addr + 2 * WORDSIZE, 0)

\* (a slip: the list's only block is unlinked without clearing the class head)
removeFromFreeList_headStays(m, start_addr, length) ==
    LET class_addr == heap_start + calculateClass_new(length) * WORDSIZE
        prev == Rd(m, start_addr + WORDSIZE)
        next == Rd(m, start_addr + 2 * WORDSIZE)
    IN  IF prev = 0 /\ next # 0
        THEN Wr(Wr(m, class_addr, next), next + WORDSIZE, 0)
        ELSE IF prev # 0 /\ next # 0
        THEN Wr(Wr(m, prev + 2 * WORDSIZE, next), next + WORDSIZE, prev)
        ELSE IF prev = 0 /\ next = 0
        THEN m
        ELSE Wr(m, prev + 2 * WORDSIZE, 0)

\* (a slip: unlinking the last block clears its predecessor's prev, not next)
removeFromFreeList_tailWrongField(m, start_addr, length) ==
    LET class_addr == heap_start + calculateClass_new(length) * WORDSIZE
        prev == Rd(m, start_addr + WORDSIZE)
        next == Rd(m, start_addr + 2 * WORDSIZE)
    IN  IF prev = 0 /\ next # 0
        THEN Wr(Wr(m, class_addr, next), next + WORDSIZE, 0)
        ELSE IF prev # 0 /\ next # 0
        THEN Wr(Wr(m, prev + 2 * WORDSIZE, next), next + WORDSIZE, prev)
        ELSE IF prev = 0 /\ next = 0
        THEN Wr(m, class_addr, 0)
        ELSE Wr(m, prev + WORDSIZE, 0)

\* (a slip: unlinking a middle block leaves its successor without a prev)
removeFromFreeList_middlePrevLost(m, start_addr, length) ==
    LET class_addr == heap_start + calculateClass_new(length) * WORDSIZE
        prev == Rd(m, start_addr + WORDSIZE)
        next == Rd(m, start_addr + 2 * WORDSIZE)
    IN  IF prev = 0 /\ next # 0
        THEN Wr(Wr(m, class_addr, next), next + WORDSIZE, 0)
        ELSE IF prev # 0 /\ next # 0
        THEN Wr(Wr(m, prev + 2 * WORDSIZE, next), next + WORDSIZE, 0)
        ELSE IF prev = 0 /\ next = 0
        THEN Wr(m, class_addr, 0)
        ELSE Wr(m, prev + 2 * WORDSIZE, 0)

removeFromFreeList(m, start_addr, length) ==
    LET class_addr == heap_start + calculateClass_new(length) * WORDSIZE
        prev == Rd(m, start_addr + WORDSIZE)
        next == Rd(m, start_addr + 2 * WORDSIZE)
    IN  IF prev = 0 /\ next # 0
        THEN Wr(Wr(m, class_addr, next), next + WORDSIZE, 0)
        ELSE IF prev # 0 /\ next # 0
        THEN Wr(Wr(m, prev + 2 * WORDSIZE, next), next + WORDSIZE, prev)
        ELSE IF prev = 0 /\ next = 0
        THEN Wr(m, class_addr, 0)
        ELSE Wr(m, prev + 2 * WORDSIZE, 0)

\* Which of removeFromFreeList's four branches unlinks the block at start_addr.
unlinkCase(m, start_addr) ==
    LET prev == Rd(m, start_addr + WORDSIZE)
        next == Rd(m, start_addr + 2 * WORDSIZE)
    IN  IF prev = 0 /\ next # 0 THEN "head"
        ELSE IF prev # 0 /\ next # 0 THEN "middle"
        ELSE IF prev = 0 /\ next = 0 THEN "sole"
        ELSE "tail"

\* ---- release
\* free's view of its right neighbour: deconstruct_new(curr_addr + curr_length,
\* &right_length, &right_allocated, &b).
\* (a slip: the two flag out-parameters swapped)
rightAllocated_swapped(m, ptr, curr_length) == getLeftAllocated(m, ptr + curr_length)
rightAllocated(m, ptr, curr_length) == getCurrAllocated(m, ptr + curr_length)

\* (a slip: the footer stored one word past the block's last word)
freeFinish_footerPastEnd(m, curr_addr, total_length, leftFlag) ==
    LET class_addr == heap_start + calculateClass_new(total_length) * WORDSIZE
        m1 == construct_new(m, curr_addr, total_length, FALSE, leftFlag)
        m2 == Wr(m1, curr_addr + total_length + WORDSIZE, Rd(m1, curr_addr))
        m3 == setLeftAllocated(m2, curr_addr + WORDSIZE + total_length, FALSE)
    IN  IF total_length > WORDSIZE
        THEN insertIntoFreeList(m3, class_addr, curr_addr)
        ELSE m3

\* (a slip: a block with no room for links is given no footer either)
freeFinish_noTinyFooter(m, curr_addr, total_length, leftFlag) ==
    LET class_addr == heap_start + calculateClass_new(total_length) * WORDSIZE
        m1 == construct_new(m, curr_addr, total_length, FALSE, leftFlag)
        m2 == IF total_length > WORDSIZE
              THEN Wr(m1, curr_addr + total_length, Rd(m1, curr_addr))
              ELSE m1
        m3 == setLeftAllocated(m2, curr_addr + WORDSIZE + total_length, FALSE)
    IN  IF total_length > WORDSIZE
        THEN insertIntoFreeList(m3, class_addr, curr_addr)
        ELSE m3

\* Steps 4 to 6 of free: header, footer, the right neighbour's flag, insert.
freeFinish(m, curr_addr, total_length, leftFlag) ==
    LET class_addr == heap_start + calculateClass_new(total_length) * WORDSIZE
        m1 == construct_new(m, curr_addr, total_length, FALSE, leftFlag)
        m2 == Wr(m1, curr_addr + total_length, Rd(m1, curr_addr))
        m3 == setLeftAllocated(m2, curr_addr + WORDSIZE + total_length, FALSE)
    IN  IF total_length > WORDSIZE
        THEN insertIntoFreeList(m3, class_addr, curr_addr)
        ELSE m3

free(m, ptr) ==
    IF ptr = NULL THEN m
    ELSE
    LET curr_length == getLength(m, ptr - WORDSIZE)
        left_allocated == getLeftAllocated(m, ptr - WORDSIZE)
        right_length == getLength(m, ptr + curr_length)
        right_allocated == rightAllocated(m, ptr, curr_length)
        left_length == IF ~left_allocated THEN getLength(m, ptr - 2 * WORDSIZE) ELSE 0
        left_left_allocated ==
            IF ~left_allocated THEN getLeftAllocated(m, ptr - 2 * WORDSIZE) ELSE FALSE
    IN  IF left_allocated /\ right_allocated
        THEN freeFinish(m, ptr - WORDSIZE, curr_length, TRUE)
        ELSE IF left_allocated /\ ~right_allocated
        THEN LET curr_addr == ptr - WORDSIZE
                 m1 == IF right_length > WORDSIZE
                       THEN removeFromFreeList(m, curr_addr + curr_length + WORDSIZE,
                                               right_length)
                       ELSE m
             IN  freeFinish(m1, curr_addr, curr_length + WORDSIZE + right_length, TRUE)
        ELSE IF ~left_allocated /\ right_allocated
        THEN LET curr_addr == ptr - (2 * WORDSIZE + left_length)
                 m1 == IF left_length > WORDSIZE
                       THEN removeFromFreeList(m, curr_addr, left_length)
                       ELSE m
             IN  freeFinish(m1, curr_addr, left_length + WORDSIZE + curr_length,
                            left_left_allocated)
        ELSE LET curr_addr == ptr - (2 * WORDSIZE + left_length)
                 m1 == IF left_length > WORDSIZE
                       THEN removeFromFreeList(m, curr_addr, left_length)
                       ELSE m
                 m2 == IF right_length > WORDSIZE
                       THEN removeFromFreeList(
                                m1, curr_addr + left_length + curr_length + 2 * WORDSIZE,
                                right_length)
                       ELSE m1
             IN  freeFinish(m2, curr_addr,
                            left_length + curr_length + right_length + 2 * WORDSIZE,
                            left_left_allocated)

\* The unlinks free(ptr) performs, in order: its left neighbour's, then its
\* right neighbour's, each only if that neighbour is free and can hold links.
freeUnlinks(m, ptr) ==
    IF ptr = NULL THEN <<>>
    ELSE
    LET curr_length == getLength(m, ptr - WORDSIZE)
        left_allocated == getLeftAllocated(m, ptr - WORDSIZE)
        right_length == getLength(m, ptr + curr_length)
        right_allocated == rightAllocated(m, ptr, curr_length)
        left_length == IF ~left_allocated THEN getLength(m, ptr - 2 * WORDSIZE) ELSE 0
        left_addr == ptr - (2 * WORDSIZE + left_length)
        right_addr == ptr + curr_length
        doLeft == ~left_allocated /\ left_length > WORDSIZE
        doRight == ~right_allocated /\ right_length > WORDSIZE
        m1 == IF doLeft THEN removeFromFreeList(m, left_addr, left_length) ELSE m
    IN  (IF doLeft THEN <<unlinkCase(m, left_addr)>> ELSE <<>>)
        \o (IF doRight THEN <<unlinkCase(m1, right_addr)>> ELSE <<>>)

\* ---- allocation
\* Growth path.  The result is the new arena and the returned pointer.
\* (a slip: the new block's header is built before the provider has answered)
allocateExtra_headerFirst(m, requiredBytes, ok) ==
    LET old_epi_addr == mem_heap_hi(m) - 7
        new_epi_addr == old_epi_addr + Wrap(requiredBytes + WORDSIZE)
        leftAllocated == getLeftAllocated(m, old_epi_addr)
        epilogue == Rd(m, old_epi_addr)
        m0 == construct_new(m, old_epi_addr, requiredBytes, TRUE, leftAllocated)
    IN  IF mem_sbrk_ret(m0, Wrap(requiredBytes + WORDSIZE), ok) = SbrkFailed
        THEN [mem |-> m0, ret |-> NULL]
        ELSE LET m1 == mem_sbrk_mem(m0, Wrap(requiredBytes + WORDSIZE), ok)
                 m2 == Wr(m1, new_epi_addr, epilogue)
                 m4 == setLeftAllocated(m2, new_epi_addr, TRUE)
             IN  [mem |-> m4, ret |-> old_epi_addr + WORDSIZE]

\* (a slip: the new block's left neighbour is taken to be allocated)
allocateExtra_leftAssumed(m, requiredBytes, ok) ==
    LET old_epi_addr == mem_heap_hi(m) - 7
        new_epi_addr == old_epi_addr + Wrap(requiredBytes + WORDSIZE)
    IN  IF mem_sbrk_ret(m, Wrap(requiredBytes + WORDSIZE), ok) = SbrkFailed
        THEN [mem |-> m, ret |-> NULL]
        ELSE LET m1 == mem_sbrk_mem(m, Wrap(requiredBytes + WORDSIZE), ok)
                 m2 == Wr(m1, new_epi_addr, Rd(m1, old_epi_addr))
                 m3 == construct_new(m2, old_epi_addr, requiredBytes, TRUE, TRUE)
                 m4 == setLeftAllocated(m3, new_epi_addr, TRUE)
             IN  [mem |-> m4, ret |-> old_epi_addr + WORDSIZE]

\* (a slip: the epilogue word is not copied to the new top)
allocateExtra_sentinelNotMoved(m, requiredBytes, ok) ==
    LET old_epi_addr == mem_heap_hi(m) - 7
        new_epi_addr == old_epi_addr + Wrap(requiredBytes + WORDSIZE)
    IN  IF mem_sbrk_ret(m, Wrap(requiredBytes + WORDSIZE), ok) = SbrkFailed
        THEN [mem |-> m, ret |-> NULL]
        ELSE LET m1 == mem_sbrk_mem(m, Wrap(requiredBytes + WORDSIZE), ok)
                 leftAllocated == getLeftAllocated(m1, old_epi_addr)
                 m3 == construct_new(m1, old_epi_addr, requiredBytes, TRUE, leftAllocated)
                 m4 == setLeftAllocated(m3, new_epi_addr, TRUE)
             IN  [mem |-> m4, ret |-> old_epi_addr + WORDSIZE]

allocateExtra(m, requiredBytes, ok) ==
    LET old_epi_addr == mem_heap_hi(m) - 7
        new_epi_addr == old_epi_addr + Wrap(requiredBytes + WORDSIZE)
    IN  IF mem_sbrk_ret(m, Wrap(requiredBytes + WORDSIZE), ok) = SbrkFailed
        THEN [mem |-> m, ret |-> NULL]
        ELSE LET m1 == mem_sbrk_mem(m, Wrap(requiredBytes + WORDSIZE), ok)
                 m2 == Wr(m1, new_epi_addr, Rd(m1, old_epi_addr))
                 leftAllocated == getLeftAllocated(m2, old_epi_addr)
                 m3 == construct_new(m2, old_epi_addr, requiredBytes, TRUE, leftAllocated)
                 m4 == setLeftAllocated(m3, new_epi_addr, TRUE)
             IN  [mem |-> m4, ret |-> old_epi_addr + WORDSIZE]

\* (a slip: a one-word remainder is not split off, though the header is shrunk)
allocateWithinHeap_noTinySplit(m, start_addr, requiredBytes, length, class) ==
    LET leftAllocated == getLeftAllocated(m, start_addr)
        m1 == removeFromFreeList(m, start_addr, length)
        m2 == construct_new(m1, start_addr, requiredBytes, TRUE, leftAllocated)
    IN  IF requiredBytes + 2 * WORDSIZE < length
        THEN LET m3 == construct_new(m2, start_addr + requiredBytes + WORDSIZE,
                                     length - requiredBytes - WORDSIZE, FALSE, TRUE)
                 m4 == construct_new(m3, start_addr + length,
                                     length - requiredBytes - WORDSIZE, FALSE, TRUE)
             IN  free(m4, start_addr + requiredBytes + 2 * WORDSIZE)
        ELSE setLeftAllocated(m2, start_addr + length + WORDSIZE, TRUE)

\* Serve a request from the free block at start_addr; the pointer returned is
\* start_addr + WORDSIZE.
allocateWithinHeap(m, start_addr, requiredBytes, length, class) ==
    LET leftAllocated == getLeftAllocated(m, start_addr)
        m1 == removeFromFreeList(m, start_addr, length)
        m2 == construct_new(m1, start_addr, requiredBytes, TRUE, leftAllocated)
    IN  IF requiredBytes < length
        THEN LET m3 == construct_new(m2, start_addr + requiredBytes + WORDSIZE,
                                     length - requiredBytes - WORDSIZE, FALSE, TRUE)
                 m4 == construct_new(m3, start_addr + length,
                                     length - requiredBytes - WORDSIZE, FALSE, TRUE)
             IN  free(m4, start_addr + requiredBytes + 2 * WORDSIZE)
        ELSE setLeftAllocated(m2, start_addr + length + WORDSIZE, TRUE)

\* (a slip: the first block that fits is kept, smaller ones after it ignored)
RECURSIVE scanList_firstFit(_, _, _, _, _)
scanList_firstFit(m, curr_addr, requiredBytes, bestLength, best_addr) ==
    IF curr_addr = 0
    THEN [addr |-> best_addr, length |-> bestLength]
    ELSE LET length == getLength(m, curr_addr)
             next == Rd(m, curr_addr + 2 * WORDSIZE)
         IN  IF requiredBytes = length
             THEN [addr |-> curr_addr, length |-> length]
             ELSE IF requiredBytes < length /\ bestLength = 0
             THEN scanList_firstFit(m, next, requiredBytes, length, curr_addr)
             ELSE scanList_firstFit(m, next, requiredBytes, bestLength, best_addr)

\* The inner while loop of malloc on a range class (class >= 16): an exact
\* match returns at once, otherwise the smallest larger block seen is kept.
RECURSIVE scanList(_, _, _, _, _)
scanList(m, curr_addr, requiredBytes, bestLength, best_addr) ==
    IF curr_addr = 0
    THEN [addr |-> best_addr, length |-> bestLength]
    ELSE LET length == getLength(m, curr_addr)
             next == Rd(m, curr_addr + 2 * WORDSIZE)
         IN  IF requiredBytes = length
             THEN [addr |-> curr_addr, length |-> length]
             ELSE IF requiredBytes < length /\ (bestLength = 0 \/ length < bestLength)
             THEN scanList(m, next, requiredBytes, length, curr_addr)
             ELSE scanList(m, next, requiredBytes, bestLength, best_addr)

\* One probe of a class: the block malloc would take from it (addr 0: none).
probeClass(m, class, requiredBytes) ==
    LET head == Rd(m, heap_start + class * WORDSIZE)
    IN  IF class < 16
        THEN IF head # 0 THEN [addr |-> head, length |-> getLength(m, head)]
                         ELSE [addr |-> 0, length |-> 0]
        ELSE scanList(m, head, requiredBytes, 0, 0)

\* (a slip: the jumped flag is never consulted)
classStep_jumpedIgnored(class, jumped) == IF class < 16 THEN 2 ELSE 1
\* How far the class index advances after a miss.
classStep(class, jumped) == IF class < 16 /\ ~jumped THEN 2 ELSE 1

\* The outer while loop of malloc: the classes probed, in order, and the
\* block chosen (addr 0 when every class up to 23 missed).
RECURSIVE searchClasses(_, _, _, _, _)
searchClasses(m, requiredBytes, class, jumped, probes) ==
    IF ~(class < NumClasses)
    THEN [addr |-> 0, length |-> 0, class |-> class, probes |-> probes]
    ELSE LET hit == probeClass(m, class, requiredBytes)
         IN  IF hit.addr # 0
             THEN [addr |-> hit.addr, length |-> hit.length, class |-> class,
                   probes |-> Append(probes, class)]
             ELSE searchClasses(m, requiredBytes, class + classStep(class, jumped),
                                jumped \/ class < 16, Append(probes, class))

\* malloc(size), with the provider's answer ok to a growth request if one is
\* made.  sbrk counts the growth requests made; blk, blkLen are the free
\* block chosen and its length (0 when the arena was grown instead).
malloc(m, init, size, ok) ==
    IF ~init \/ size <= 0
    THEN [mem |-> m, ret |-> NULL, sbrk |-> 0, blk |-> 0, blkLen |-> 0, probes |-> <<>>]
    ELSE LET requiredBytes == align_new(size)
             s == searchClasses(m, requiredBytes, calculateClass_new(requiredBytes),
                                FALSE, <<>>)
         IN  IF s.addr # 0
             THEN [mem |-> allocateWithinHeap(m, s.addr, requiredBytes, s.length, s.class),
                   ret |-> s.addr + WORDSIZE, sbrk |-> 0,
                   blk |-> s.addr, blkLen |-> s.length, probes |-> s.probes]
             ELSE LET g == allocateExtra(m, requiredBytes, ok)
                  IN  [mem |-> g.mem, ret |-> g.ret, sbrk |-> 1,
                       blk |-> 0, blkLen |-> 0, probes |-> s.probes]

\* ---- resize
RECURSIVE copyWords_exchanged(_, _, _, _)
RECURSIVE copyWords(_, _, _, _)
\* (a slip: source and destination exchanged)
copyWords_exchanged(m, dst, src, n) ==
    IF n <= 0 THEN m
    ELSE copyWords_exchanged(Wr(m, src, Rd(m, dst)), dst + WORDSIZE, src + WORDSIZE,
                             n - WORDSIZE)

\* mem_memcpy: copy n bytes (whole words) from src to dst.
copyWords(m, dst, src, n) ==
    IF n <= 0 THEN m
    ELSE copyWords(Wr(m, dst, Rd(m, src)), dst + WORDSIZE, src + WORDSIZE, n - WORDSIZE)

\* (a slip: the cut-off tail is built but never released)
realloc_remainderKept(m, init, oldptr, size, ok) ==
    IF oldptr = NULL THEN malloc(m, init, size, ok)
    ELSE IF size = 0
    THEN [mem |-> free(m, oldptr), ret |-> NULL, sbrk |-> 0, blk |-> 0, blkLen |-> 0,
          probes |-> <<>>]
    ELSE
    LET original_length == getLength(m, oldptr - WORDSIZE)
        left_allocated == getLeftAllocated(m, oldptr - WORDSIZE)
        requested_length == align_new(size)
    IN  IF requested_length < original_length
        THEN LET m1 == construct_new(m, oldptr - WORDSIZE, requested_length, TRUE,
                                     left_allocated)
                 m2 == construct_new(m1, oldptr + requested_length,
                                     original_length - requested_length - WORDSIZE,
                                     FALSE, TRUE)
                 m3 == construct_new(m2, oldptr + original_length - WORDSIZE,
                                     original_length - requested_length - WORDSIZE,
                                     FALSE, TRUE)
                 m4 == m3
                 m5 == setLeftAllocated(m4, oldptr + original_length, FALSE)
             IN  [mem |-> m5, ret |-> oldptr, sbrk |-> 0, blk |-> 0, blkLen |-> 0,
                  probes |-> <<>>]
        ELSE IF requested_length > original_length
        THEN LET r == malloc(m, init, requested_length, ok)
             IN  IF r.ret = NULL
                 THEN r
                 ELSE [r EXCEPT !.mem = free(copyWords(r.mem, r.ret, oldptr,
                                                       original_length), oldptr)]
        ELSE [mem |-> m, ret |-> oldptr, sbrk |-> 0, blk |-> 0, blkLen |-> 0,
              probes |-> <<>>]


\* (a slip: the last flag write lands on the remainder's own header)
realloc_flagOnRemainder(m, init, oldptr, size, ok) ==
    IF oldptr = NULL THEN malloc(m, init, size, ok)
    ELSE IF size = 0
    THEN [mem |-> free(m, oldptr), ret |-> NULL, sbrk |-> 0, blk |-> 0, blkLen |-> 0,
          probes |-> <<>>]
    ELSE
    LET original_length == getLength(m, oldptr - WORDSIZE)
        left_allocated == getLeftAllocated(m, oldptr - WORDSIZE)
        requested_length == align_new(size)
    IN  IF requested_length < original_length
        THEN LET m1 == construct_new(m, oldptr - WORDSIZE, requested_length, TRUE,
                                     left_allocated)
                 m2 == construct_new(m1, oldptr + requested_length,
                                     original_length - requested_length - WORDSIZE,
                                     FALSE, TRUE)
                 m3 == construct_new(m2, oldptr + original_length - WORDSIZE,
                                     original_length - requested_length - WORDSIZE,
                                     FALSE, TRUE)
                 m4 == free(m3, oldptr + requested_length + WORDSIZE)
                 m5 == setLeftAllocated(m4, oldptr + requested_length, FALSE)
             IN  [mem |-> m5, ret |-> oldptr, sbrk |-> 0, blk |-> 0, blkLen |-> 0,
                  probes |-> <<>>]
        ELSE IF requested_length > original_length
        THEN LET r == malloc(m, init, requested_length, ok)
             IN  IF r.ret = NULL
                 THEN r
                 ELSE [r EXCEPT !.mem = free(copyWords(r.mem, r.ret, oldptr,
                                                       original_length), oldptr)]
        ELSE [mem |-> m, ret |-> oldptr, sbrk |-> 0, blk |-> 0, blkLen |-> 0,
              probes |-> <<>>]


realloc(m, init, oldptr, size, ok) ==
    IF oldptr = NULL THEN malloc(m, init, size, ok)
    ELSE IF size = 0
    THEN [mem |-> free(m, oldptr), ret |-> NULL, sbrk |-> 0, blk |-> 0, blkLen |-> 0,
          probes |-> <<>>]
    ELSE
    LET original_length == getLength(m, oldptr - WORDSIZE)
        left_allocated == getLeftAllocated(m, oldptr - WORDSIZE)
        requested_length == align_new(size)
    IN  IF requested_length < original_length
        THEN LET m1 == construct_new(m, oldptr - WORDSIZE, requested_length, TRUE,
                                     left_allocated)
                 m2 == construct_new(m1, oldptr + requested_length,
                                     original_length - requested_length - WORDSIZE,
                                     FALSE, TRUE)
                 m3 == construct_new(m2, oldptr + original_length - WORDSIZE,
                                     original_length - requested_length - WORDSIZE,
                                     FALSE, TRUE)
                 m4 == free(m3, oldptr + requested_length + WORDSIZE)
                 m5 == setLeftAllocated(m4, oldptr + original_length, FALSE)
             IN  [mem |-> m5, ret |-> oldptr, sbrk |-> 0, blk |-> 0, blkLen |-> 0,
                  probes |-> <<>>]
        ELSE IF requested_length > original_length
        THEN LET r == malloc(m, init, requested_length, ok)
             IN  IF r.ret = NULL
                 THEN r
                 ELSE [r EXCEPT !.mem = free(copyWords(r.mem, r.ret, oldptr,
                                                       original_length), oldptr)]
        ELSE [mem |-> m, ret |-> oldptr, sbrk |-> 0, blk |-> 0, blkLen |-> 0,
              probes |-> <<>>]


\* The arena of a shrinking realloc once free(remainder) has returned, before
\* the flag write that follows it.
shrinkReleased(m, oldptr, size) ==
    LET original_length == getLength(m, oldptr - WORDSIZE)
        left_allocated == getLeftAllocated(m, oldptr - WORDSIZE)
        requested_length == align_new(size)
        m1 == construct_new(m, oldptr - WORDSIZE, requested_length, TRUE, left_allocated)
        m2 == construct_new(m1, oldptr + requested_length,
                            original_length - requested_length - WORDSIZE, FALSE, TRUE)
        m3 == construct_new(m2, oldptr + original_length - WORDSIZE,
                            original_length - requested_length - WORDSIZE, FALSE, TRUE)
    IN  free(m3, oldptr + requested_length + WORDSIZE)

\* ---- initialisation
\* mem_sbrk's answer is compared with NULL; a failing provider answers
\* (void *)-1, so the memset and the two construct_new calls run all the same,
\* on 26 words from mem_heap_lo() that the arena does not hold.
mm_init(m, ok) ==
    LET r == mem_sbrk_ret(m, InitWords * WORDSIZE, ok)
        m1 == mem_sbrk_mem(m, InitWords * WORDSIZE, ok)
    IN  IF r = NULL
        THEN [mem |-> m, ret |-> FALSE, initialized |-> FALSE, heap_start |-> heap_start,
              wild |-> FALSE]
        ELSE IF Len(m1) < InitWords
        THEN [mem |-> m1, ret |-> TRUE, initialized |-> TRUE, heap_start |-> mem_heap_lo,
              wild |-> TRUE]
        ELSE LET hs == mem_heap_lo
                 m2 == [i \in 1..Len(m1) |-> IF i <= InitWords THEN 0 ELSE m1[i]]
                 m3 == construct_new(m2, hs + 24 * WORDSIZE, 0, TRUE, TRUE)
                 m4 == construct_new(m3, hs + 25 * WORDSIZE, 0, TRUE, TRUE)
             IN  [mem |-> m4, ret |-> TRUE, initialized |-> TRUE, heap_start |-> hs,
                  wild |-> FALSE]

\* ---- the client
SmallMenu == {1, 16, 32}
RangeMenu == {264, 280}
FillMenu == {1, 16, 32}
MoveMenu == {16, 32}
ListMenu == {16}
\* 232 starts at exact class 14 and skips to range class 16, which holds the
\* blocks of 264 and 280.
BestMenu == {232, 264, 280}
\* Sizes within one alignment unit of the largest size_t, and just below.
HugeMenu == {1, 16, SizeModulus - 1, SizeModulus - 8, SizeModulus - 24}

Ptrs == {r.ptr : r \in live}
LiveRec(p) == CHOOSE r \in live : r.ptr = p
\* The words of a payload of size bytes at p.
PayloadWords(p, size) == {p + WORDSIZE * i : i \in 0..((size + WORDSIZE - 1) \div WORDSIZE - 1)}
\* What the client stores in word number i of a payload of size bytes.
Pattern(size, i) == 1000 * size + 2 * i + 1
\* The client has been handed a block by malloc and has not filled it yet.
Unfilled == fill /\ last.op = "malloc" /\ last.ret # NULL

NoCall == [op |-> "none", arg |-> NULL, size |-> 0, ret |-> NULL,
           sbrk |-> 0, grew |-> FALSE, blk |-> 0, blkLen |-> 0, probes |-> <<>>,
           unlinked |-> <<>>, original_length |-> 0]

InitCalls(sizes, extra, filling, most, tracking, calls) ==
    /\ mem = <<>>
    /\ initialized = FALSE
    /\ heap_start = NULL
    /\ live = {}
    /\ last = NoCall
    /\ wild = FALSE
    /\ menu = sizes
    /\ fill = filling
    /\ cap = InitWords + extra
    /\ hold = most
    /\ track = tracking
    /\ budget = calls

InitTracking(sizes, extra, filling, most, tracking) ==
    InitCalls(sizes, extra, filling, most, tracking, -1)

InitHolding(sizes, extra, filling, most) ==
    InitTracking(sizes, extra, filling, most, FALSE)
InitWith(sizes, extra, filling) == InitHolding(sizes, extra, filling, MaxLive)

Init == InitWith(SmallMenu, SmallExtra, FALSE)
InitRange == InitWith(RangeMenu, RangeExtra, FALSE)
InitFill == InitWith(FillMenu, FillExtra, TRUE)
InitMove == InitWith(MoveMenu, MoveExtra, TRUE)
InitHuge == InitWith(HugeMenu, HugeExtra, FALSE)
InitBest == InitCalls(BestMenu, BestExtra, FALSE, MaxLive, FALSE, BestCalls)
InitList == InitTracking(ListMenu, ListExtra, FALSE, ListLive, TRUE)
InitShrink == InitCalls(MoveMenu, ShrinkExtra, FALSE, MaxLive, FALSE, ShrinkCalls)

\* The client makes one more call.
Spend == budget # 0 /\ budget' = IF budget > 0 THEN budget - 1 ELSE budget

\* ---- one action per public operation
MmInit ==
    /\ ~wild
    /\ Spend
    /\ ~initialized
    /\ \E ok \in BOOLEAN :
         \E r \in {mm_init(mem, ok)} :
             /\ mem' = r.mem
             /\ initialized' = r.initialized
             /\ heap_start' = r.heap_start
             /\ wild' = r.wild
             /\ last' = [NoCall EXCEPT !.op = "init", !.ret = IF r.ret THEN 1 ELSE 0,
                                       !.sbrk = 1, !.grew = Len(r.mem) > Len(mem)]
    /\ UNCHANGED <<live, menu, fill, cap, hold, track>>

Malloc(size) ==
    /\ ~wild
    /\ Spend
    /\ ~Unfilled
    /\ Cardinality(live) < hold
    /\ \E ok \in BOOLEAN :
         \E r \in {malloc(mem, initialized, size, ok)} :
             /\ mem' = r.mem
             /\ live' = IF r.ret # NULL
                        THEN live \cup {[ptr |-> r.ret, size |-> size]}
                        ELSE live
             /\ last' = [op |-> "malloc", arg |-> NULL, size |-> size,
                         ret |-> r.ret, sbrk |-> r.sbrk, grew |-> Len(r.mem) > Len(mem),
                         blk |-> r.blk, blkLen |-> r.blkLen, probes |-> r.probes,
                         unlinked |-> IF track /\ r.blk # 0
                                      THEN <<unlinkCase(mem, r.blk)>> ELSE <<>>,
                         original_length |-> 0]
             /\ wild' = (r.ret # NULL /\ ~InArena(r.mem, r.ret))
    /\ UNCHANGED <<initialized, heap_start, menu, fill, cap, hold, track>>

Free(p) ==
    /\ ~wild
    /\ Spend
    /\ ~Unfilled
    /\ mem' = free(mem, p)
    /\ live' = {r \in live : r.ptr # p}
    /\ last' = [NoCall EXCEPT !.op = "free", !.arg = p,
                              !.size = IF p = NULL THEN 0 ELSE LiveRec(p).size,
                              !.unlinked = IF track THEN freeUnlinks(mem, p) ELSE <<>>]
    /\ UNCHANGED <<initialized, heap_start, wild, menu, fill, cap, hold, track>>

Realloc(p, size) ==
    /\ ~wild
    /\ Spend
    /\ ~Unfilled
    /\ p = NULL => Cardinality(live) < hold
    /\ \E ok \in BOOLEAN :
         \E r \in {realloc(mem, initialized, p, size, ok)} :
         LET rest == {x \in live : x.ptr # p} IN
             /\ mem' = r.mem
             /\ live' = IF r.ret # NULL
                        THEN rest \cup {[ptr |-> r.ret, size |-> size]}
                        ELSE IF size = 0 THEN rest ELSE live
             /\ last' = [op |-> "realloc", arg |-> p, size |-> size,
                         ret |-> r.ret, sbrk |-> r.sbrk, grew |-> Len(r.mem) > Len(mem),
                         blk |-> r.blk, blkLen |-> r.blkLen, probes |-> r.probes,
                         unlinked |-> <<>>,
                         original_length |-> IF p = NULL THEN 0
                                             ELSE getLength(mem, p - WORDSIZE)]
             /\ wild' = (r.ret # NULL /\ ~InArena(r.mem, r.ret))
    /\ UNCHANGED <<initialized, heap_start, menu, fill, cap, hold, track>>

\* The client fills the payload malloc has just handed it, before it calls
\* the allocator again.  (No allocator code reads a payload, except to copy it.)
Write(p) ==
    /\ ~wild
    /\ Spend
    /\ fill
    /\ Unfilled /\ last.ret = p
    /\ mem' = [i \in 1..Len(mem) |->
                 LET a == HeapLo + WORDSIZE * (i - 1)
                 IN  IF a \in PayloadWords(p, LiveRec(p).size)
                     THEN Pattern(LiveRec(p).size, (a - p) \div WORDSIZE)
                     ELSE mem[i]]
    /\ last' = [NoCall EXCEPT !.op = "write", !.arg = p]
    /\ UNCHANGED <<initialized, heap_start, live, wild, menu, fill, cap, hold, track>>

Next ==
    \/ MmInit
    \/ \E size \in menu \cup {0} : Malloc(size)
    \/ \E p \in Ptrs \cup {NULL} : Free(p)
    \/ \E p \in Ptrs \cup {NULL} : \E size \in menu \cup {0} : Realloc(p, size)

\* A client that also fills what it is given.
NextFill ==
    \/ Next
    \/ \E p \in Ptrs : Write(p)

\* A client that never resizes: every pointer it holds came from malloc.
NextAllocFree ==
    \/ MmInit
    \/ \E size \in menu \cup {0} : Malloc(size)
    \/ \E p \in Ptrs \cup {NULL} : Free(p)

Spec == Init /\ [][Next]_vars
SpecAllocFree == Init /\ [][NextAllocFree]_vars
SpecRange == InitRange /\ [][Next]_vars
SpecFill == InitFill /\ [][NextFill]_vars
SpecMove == InitMove /\ [][NextFill]_vars
SpecHuge == InitHuge /\ [][Next]_vars
SpecBest == InitBest /\ [][NextAllocFree]_vars
SpecList == InitList /\ [][NextAllocFree]_vars
SpecShrink == InitShrink /\ [][Next]_vars

\* ---- reading the arena as blocks (the walk of mm_checkheap)
Ready == initialized /\ ~wild
FirstBlock == heap_start + 25 * WORDSIZE
Sentinel(m) == mem_heap_hi(m) - 7

\* The headers met walking from a up to the sentinel.
RECURSIVE WalkFrom(_, _)
WalkFrom(m, a) ==
    IF a >= Sentinel(m) \/ ~InArena(m, a) THEN <<>>
    ELSE <<a>> \o WalkFrom(m, a + getLength(m, a) + WORDSIZE)
\* Where that walk stops.
RECURSIVE WalkEnd(_, _)
WalkEnd(m, a) ==
    IF a >= Sentinel(m) \/ ~InArena(m, a) THEN a
    ELSE WalkEnd(m, a + getLength(m, a) + WORDSIZE)

Blocks(m) == WalkFrom(m, FirstBlock)
WalkOK(m) == WalkEnd(m, FirstBlock) = Sentinel(m)
IsFree(m, a) == ~getCurrAllocated(m, a)
FreeBlocks(m) == {a \in {Blocks(m)[i] : i \in 1..Len(Blocks(m))} : IsFree(m, a)}

\* The blocks of one class list, following next from the class head.
RECURSIVE ListFrom(_, _, _)
ListFrom(m, a, fuel) ==
    IF a = 0 \/ fuel = 0 THEN <<>>
    ELSE <<a>> \o ListFrom(m, Rd(m, a + 2 * WORDSIZE), fuel - 1)
ClassList(m, c) == ListFrom(m, Rd(m, heap_start + c * WORDSIZE), Len(m))
\* How many times block a is met in one list, and in all the class lists.
OccIn(list, a) == Cardinality({i \in 1..Len(list) : list[i] = a})
RECURSIVE OccFrom(_, _, _)
OccFrom(m, a, c) ==
    IF c >= NumClasses THEN 0 ELSE OccIn(ClassList(m, c), a) + OccFrom(m, a, c + 1)
Occurrences(m, a) == OccFrom(m, a, 0)

\* ---- C1
\* C1: after a successful init, every pointer the client has been handed by
\* malloc or realloc (the one just returned included) is 16-byte aligned, and
\* the payload of the requested size lies in the arena, above the directory
\* header (class heads and prologue) and below the sentinel.
PayloadInBounds(p, size) ==
    /\ p % ALIGNMENT = 0
    /\ p >= heap_start + InitWords * WORDSIZE
    /\ p + size <= Sentinel(mem)
C1_AlignedInBounds ==
    Ready =>
        /\ \A r \in live : PayloadInBounds(r.ptr, r.size)
        /\ (last.op \in {"malloc", "realloc"} /\ last.ret # NULL) =>
               /\ last.ret \in Ptrs
               /\ PayloadInBounds(last.ret, last.size)
\* A resize that moved the block, with two other allocations around.
C1_Witness ==
    /\ Ready
    /\ last.op = "realloc" /\ last.arg # NULL /\ last.ret # NULL /\ last.ret # last.arg
    /\ Cardinality(live) = MaxLive

\* ---- C3
\* C3: after every call, the walk from the first block reaches the sentinel
\* and no two physically adjacent blocks are both free.
C3_NoAdjacentFree ==
    Ready =>
        /\ WalkOK(mem)
        /\ \A i \in 1..(Len(Blocks(mem)) - 1) :
               ~(IsFree(mem, Blocks(mem)[i]) /\ IsFree(mem, Blocks(mem)[i + 1]))
\* A release that merged the block with free neighbours on both sides.
C3_Witness ==
    /\ Ready
    /\ last.op = "free" /\ last.arg # NULL
    /\ \E a \in FreeBlocks(mem) :
          /\ a < last.arg - WORDSIZE
          /\ a + getLength(mem, a) > last.arg + align_new(last.size)

\* ---- C2
\* The words of the block at payload address p that belong to the caller.
BlockPayload(m, p) ==
    {p + WORDSIZE * i : i \in 0..(getLength(m, p - WORDSIZE) \div WORDSIZE - 1)}
HeaderSet(m) == {Blocks(m)[i] : i \in 1..Len(Blocks(m))}

C2_LiveInv ==
    Ready =>
        /\ \A r \in live :
              /\ r.ptr - WORDSIZE \in HeaderSet(mem)
              /\ getCurrAllocated(mem, r.ptr - WORDSIZE)
              /\ getLength(mem, r.ptr - WORDSIZE) >= r.size
        /\ \A r1, r2 \in live :
              r1.ptr # r2.ptr => BlockPayload(mem, r1.ptr) \cap BlockPayload(mem, r2.ptr) = {}
\* One call: it leaves every word of the other live payloads as it was, and
\* a block it hands out shares no word with a payload the client holds.
C2_Step ==
    /\ \A r \in live :
          r.ptr # last'.arg =>
              \A a \in BlockPayload(mem, r.ptr) : Rd(mem', a) = Rd(mem, a)
    /\ (last'.op \in {"malloc", "realloc"} /\ last'.ret # NULL /\ last'.ret # last'.arg) =>
          \A r \in live : BlockPayload(mem', last'.ret) \cap BlockPayload(mem, r.ptr) = {}
\* C2: in every reachable state the payloads of the live allocations are
\* pairwise disjoint and each live block is a block of the arena marked
\* allocated with a stored size of at least the requested size; and no call
\* on another pointer changes a word of a live payload.
C2_Ownership == [](C2_LiveInv) /\ [][C2_Step]_vars
\* A release between two live, filled allocations.
C2_Witness ==
    /\ Ready
    /\ last.op = "free" /\ last.arg # NULL
    /\ \E r1, r2 \in live :
          /\ r1.ptr < last.arg /\ last.arg < r2.ptr
          /\ Rd(mem, r1.ptr) = Pattern(r1.size, 0)
          /\ Rd(mem, r2.ptr) = Pattern(r2.size, 0)

\* ---- C4
\* C4: when release(p) of a pointer obtained by allocate(n) is followed at once
\* by allocate(n), the request is served from free memory: the arena provider
\* is not asked to grow the arena, and a block is returned.
C4_ReuseWithoutGrowth ==
    [][(last.op = "free" /\ last.arg # NULL /\ last'.op = "malloc" /\ last'.size = last.size)
          => (last'.sbrk = 0 /\ last'.ret # NULL)]_vars

\* ---- C5
\* The release just made left its block unmerged: a free block of the
\* released size still starts at the released header.
ReleasedAlone ==
    /\ last.op = "free" /\ last.arg # NULL
    /\ last.arg - WORDSIZE \in HeaderSet(mem)
    /\ IsFree(mem, last.arg - WORDSIZE)
    /\ getLength(mem, last.arg - WORDSIZE) = align_new(last.size)
\* C5: when a block of an exact class, large enough to hold the two link
\* fields, is released while both physical neighbours are allocated, the next
\* allocate of the same (padded) size returns that block's address.
C5_LifoReuse ==
    [][(/\ ReleasedAlone
        /\ calculateClass_new(align_new(last.size)) < 16
        /\ align_new(last.size) > WORDSIZE
        /\ last'.op = "malloc"
        /\ align_new(last'.size) = align_new(last.size))
          => last'.ret = last.arg]_vars
\* Scenario A: the first of two 16-byte blocks was released and a third
\* allocate(16) has been served from it.
C5_Witness ==
    /\ Ready
    /\ last.op = "malloc" /\ last.size = 16
    /\ last.blk = FirstBlock /\ last.blkLen = 24 /\ last.ret = FirstBlock + WORDSIZE
    /\ live = {[ptr |-> FirstBlock + WORDSIZE, size |-> 16],
               [ptr |-> FirstBlock + 5 * WORDSIZE, size |-> 16]}

\* ---- C6
\* This step is an allocate served from a free block longer than required.
SplitStep ==
    /\ last'.op = "malloc" /\ last'.blk # 0
    /\ last'.blkLen > align_new(last'.size)
\* What the split leaves, but for the remainder's list membership: no growth,
\* the served block at the chosen address with size R and its old left bit,
\* and after it one free block of size L - R - 8 with equal header and footer
\* and its left bit set, reaching to the end of the chosen block.
SplitShape ==
    LET blk == last'.blk
        L == last'.blkLen
        R == align_new(last'.size)
        rem == blk + WORDSIZE + R
    IN  /\ blk \in FreeBlocks(mem) /\ getLength(mem, blk) = L
        /\ Len(mem') = Len(mem) /\ last'.sbrk = 0
        /\ last'.ret = blk + WORDSIZE
        /\ getCurrAllocated(mem', blk)
        /\ getLength(mem', blk) = R
        /\ getLeftAllocated(mem', blk) = getLeftAllocated(mem, blk)
        /\ rem \in FreeBlocks(mem')
        /\ getLength(mem', rem) = L - R - WORDSIZE
        /\ Rd(mem', rem + getLength(mem', rem)) = Rd(mem', rem)
        /\ getLeftAllocated(mem', rem)
RemainderLinked ==
    LET rem == last'.blk + WORDSIZE + align_new(last'.size)
    IN  /\ Occurrences(mem', rem) = 1
        /\ OccIn(ClassList(mem', calculateClass_new(getLength(mem', rem))), rem) = 1
SetMax(S) == CHOOSE x \in S : \A y \in S : y <= x
SetMin(S) == CHOOSE x \in S : \A y \in S : x <= y
\* The run of released blocks around header b: it starts where the nearest
\* allocated block to the left ends (or at the first block of the heap) and
\* ends at the nearest allocated header to the right (or at the sentinel).
GapStart(b) ==
    SetMax({FirstBlock} \cup {r.ptr + align_new(r.size) : r \in {x \in live : x.ptr < b}})
GapEnd(b) ==
    SetMin({Sentinel(mem)} \cup {r.ptr - WORDSIZE : r \in {x \in live : x.ptr > b}})
\* One free block fills the run around b: it starts at the run's first
\* header and its size is what the run's blocks and their boundaries add up to.
OneBlockGap(b) ==
    /\ GapStart(b) \in FreeBlocks(mem)
    /\ getLength(mem, GapStart(b)) = GapEnd(b) - GapStart(b) - WORDSIZE
    /\ Rd(mem, GapEnd(b) - WORDSIZE) = Rd(mem, GapStart(b))
AfterRelease == Ready /\ last.op = "free" /\ last.arg # NULL
WordsOf(n) == (n + WORDSIZE - 1) \div WORDSIZE
Smaller(a, b) == IF a < b THEN a ELSE b
\* C8: a resize of a live block of size s to n >= 1 that returns a block q
\* leaves in the first min(n, s) bytes of q what p held before the call,
\* whether q is p (shrunk or kept) or a new block (copied).
C8_ResizeKeepsContent ==
    [][(last'.op = "realloc" /\ last'.arg # NULL /\ last'.size >= 1
            /\ last'.ret # NULL /\ last'.arg \in Ptrs)
       => \A i \in 0..(WordsOf(Smaller(last'.size, LiveRec(last'.arg).size)) - 1) :
             Rd(mem', last'.ret + WORDSIZE * i) = Rd(mem, last'.arg + WORDSIZE * i)]_vars
\* A resize has moved a block the client had filled, and the new block starts
\* with what the client stored in the old one.
C8_Witness ==
    /\ Ready
    /\ last.op = "realloc" /\ last.arg # NULL /\ last.ret # NULL
    /\ last.ret # last.arg
    /\ \E s \in menu :
          /\ s < last.size /\ s > WORDSIZE
          /\ \A i \in 0..(WordsOf(s) - 1) :
                Rd(mem, last.ret + WORDSIZE * i) = Pattern(s, i)

\* ---- C9
\* This step is an allocate, or a growing resize, whose search of the class
\* lists found no block to serve it.
NoCandidateStep ==
    /\ last'.op \in {"malloc", "realloc"}
    /\ last'.size > 0
    /\ last'.probes # <<>> /\ last'.blk = 0
\* C9: allocate(0) returns null, asks the provider for nothing and changes
\* nothing; an allocate or growing resize that finds no candidate asks the
\* provider exactly once, and when the arena does not grow it returns null
\* with every word of the arena and the arena's bounds as they were, the
\* resized block still allocated and still the client's.
C9_FailureNoEffect ==
    [][/\ (last'.op = "malloc" /\ last'.size = 0)
            => (last'.ret = NULL /\ last'.sbrk = 0 /\ mem' = mem /\ live' = live)
       /\ NoCandidateStep
            => /\ last'.sbrk = 1
               /\ ~last'.grew
                    => /\ last'.ret = NULL
                       /\ mem' = mem
                       /\ live' = live
                       /\ (last'.op = "realloc" /\ last'.arg # NULL)
                            => /\ last'.arg \in Ptrs'
                               /\ getCurrAllocated(mem', last'.arg - WORDSIZE)]_vars
\* A growing resize of a live block has just failed for want of arena.
C9_Witness ==
    /\ Ready
    /\ last.op = "realloc" /\ last.arg \in Ptrs /\ last.size > 0
    /\ last.probes # <<>> /\ last.blk = 0
    /\ last.sbrk = 1 /\ ~last.grew /\ last.ret = NULL

\* ---- C10
\* C10 as claimed: before init, allocate returns null and the arena is
\* untouched; and an init whose growth request the provider refuses returns
\* failure and leaves the engine uninitialized, nothing having been stored.
C10_ServedOnlyAfterInit ==
    /\ (~initialized /\ last.op = "malloc") => (last.ret = NULL /\ mem = <<>>)
    /\ (last.op = "init" /\ ~last.grew)
         => (last.ret = 0 /\ ~initialized /\ ~wild /\ mem = <<>>)

\* ---- C11
\* C11 as claimed: for every request size of the size type, the padded size
\* is at least the size, the starting class is one of the 24, a growth
\* request asks for at least the padded size, and allocate returns null or a
\* block of at least size bytes inside the arena, the sentinel staying the
\* zero-size word at the arena's top.
C11_PaddingNeverWraps ==
    (initialized /\ last.op = "malloc" /\ last.size > 0) =>
        LET requiredBytes == align_new(last.size)
        IN  /\ requiredBytes >= last.size
            /\ calculateClass_new(requiredBytes) \in 0..(NumClasses - 1)
            /\ last.sbrk = 1 => Wrap(requiredBytes + WORDSIZE) >= requiredBytes
            /\ last.ret # NULL =>
                  /\ InArena(mem, last.ret)
                  /\ last.ret + last.size - 1 <= mem_heap_hi(mem)
                  /\ getLength(mem, last.ret - WORDSIZE) >= last.size
            /\ getLength(mem, Sentinel(mem)) = 0
            /\ getCurrAllocated(mem, Sentinel(mem))

\* ---- C12
\* The headers of the arena in address order, the sentinel last.
BlocksAndSentinel(m) == Append(Blocks(m), Sentinel(m))
\* C12: after every operation the walk of the arena ends on the sentinel, and
\* every block's left flag, the sentinel's too, says whether the block just
\* before it is allocated (the prologue, before the first block, is).
C12_LeftFlagTrue ==
    Ready =>
        /\ WalkOK(mem)
        /\ \A i \in 1..Len(BlocksAndSentinel(mem)) :
              getLeftAllocated(mem, BlocksAndSentinel(mem)[i])
                = IF i = 1 THEN getCurrAllocated(mem, FirstBlock - WORDSIZE)
                  ELSE getCurrAllocated(mem, BlocksAndSentinel(mem)[i - 1])
\* The arena has just grown while its last block was free: the new block
\* stands right after a free block.
C12_Witness ==
    /\ Ready
    /\ last.op = "malloc" /\ last.grew /\ last.ret # NULL
    /\ \E g \in FreeBlocks(mem) : g + WORDSIZE + getLength(mem, g) = last.ret - WORDSIZE
    /\ ~getLeftAllocated(mem, last.ret - WORDSIZE)

\* ---- C13
\* The footer of the free block at g: its last word.
Footer(m, g) == Rd(m, g + getLength(m, g))
\* C13: after every operation, the last word of every free block, the
\* one-word-payload block included, is equal to its header.
C13_FooterIsHeader ==
    Ready => \A g \in FreeBlocks(mem) : Footer(mem, g) = Rd(mem, g)
\* A minimum-size free block and a larger free block stand in the arena.
C13_Witness ==
    /\ Ready
    /\ \E g \in FreeBlocks(mem) : getLength(mem, g) = WORDSIZE /\ Footer(mem, g) = Rd(mem, g)
    /\ \E g \in FreeBlocks(mem) : getLength(mem, g) > WORDSIZE /\ Footer(mem, g) = Rd(mem, g)

\* ---- C14
Classes == 0..(NumClasses - 1)
\* The size of the blocks an exact class holds.
ExactSize(c) == ALIGNMENT * (c + 1) - WORDSIZE
prevOf(m, b) == Rd(m, b + WORDSIZE)
nextOf(m, b) == Rd(m, b + 2 * WORDSIZE)
\* The list is a finite doubly-linked list: nothing met twice, the last
\* block's next null, the first block's prev null, each block's prev the
\* block before it.
WellFormedList(m, list) ==
    /\ Cardinality({list[i] : i \in 1..Len(list)}) = Len(list)
    /\ list # <<>> =>
          /\ prevOf(m, list[1]) = 0
          /\ nextOf(m, list[Len(list)]) = 0
    /\ \A i \in 1..(Len(list) - 1) : prevOf(m, list[i + 1]) = list[i]
\* C15: after every operation, so after every insert at a head and every
\* unlink of a first, a middle, a last or an only block, each class list is a
\* well-formed finite doubly-linked list.
C15_ListsWellFormed ==
    Ready => \A c \in Classes : WellFormedList(mem, ClassList(mem, c))
\* A free has just unlinked a block that had both neighbours in its list,
\* and the two are now a well-formed list together with the merged block's.
C15_Witness ==
    /\ Ready
    /\ last.op = "free"
    /\ \E i \in 1..Len(last.unlinked) : last.unlinked[i] = "middle"
    /\ \E c \in Classes : ClassList(mem, c) # <<>>
    /\ \A c \in Classes : WellFormedList(mem, ClassList(mem, c))

\* ---- C16
\* The prologue: the last word of the directory header.
Prologue == heap_start + NumClasses * WORDSIZE
\* The walk from the first header stays in the arena and ends exactly on the
\* sentinel, the arena's last word, which has size 0 and is allocated, as the
\* prologue is; and no class list holds the sentinel or a directory word.
C16_WalkInv ==
    Ready =>
        /\ WalkOK(mem)
        /\ \A i \in 1..Len(Blocks(mem)) :
              InArena(mem, Blocks(mem)[i]) /\ Blocks(mem)[i] < Sentinel(mem)
        /\ Sentinel(mem) + WORDSIZE - 1 = mem_heap_hi(mem)
        /\ getLength(mem, Sentinel(mem)) = 0 /\ getCurrAllocated(mem, Sentinel(mem))
        /\ getLength(mem, Prologue) = 0 /\ getCurrAllocated(mem, Prologue)
        /\ \A c \in Classes : \A i \in 1..Len(ClassList(mem, c)) :
              ClassList(mem, c)[i] >= FirstBlock /\ ClassList(mem, c)[i] < Sentinel(mem)
\* When the arena grows, the word that was the sentinel becomes the header of
\* the new allocated block, which reaches to the new sentinel.
C16_GrowthStep ==
    (Ready /\ Len(mem') > Len(mem)) =>
        /\ getCurrAllocated(mem', Sentinel(mem))
        /\ Sentinel(mem) + getLength(mem', Sentinel(mem)) + WORDSIZE = Sentinel(mem')
\* C16: after init and after every operation the walk of the arena by stored
\* sizes stays in bounds and lands on the sentinel, the zero-size allocated
\* last word of the arena; the sentinel moves to the new top on every growth;
\* neither it nor the directory header is in a free list.
C16_WalkReachesSentinel == [](C16_WalkInv) /\ [][C16_GrowthStep]_vars
\* The arena has grown past a block that is now free and listed.
C16_Witness ==
    /\ Ready
    /\ last.op = "malloc" /\ last.grew
    /\ Len(Blocks(mem)) >= 3
    /\ \E g \in FreeBlocks(mem) : Occurrences(mem, g) = 1
    /\ Blocks(mem)[Len(Blocks(mem))] = last.ret - WORDSIZE

\* ---- C17
\* The padded size the search of this step was made for.
SearchedBytes == align_new(last'.size)
\* C17: the classes an allocate (or a growing resize) probes start at the
\* class of the padded size and go upwards; an advance is by one class,
\* except that the first may be by two when the starting class is an exact
\* class; every class probed before the last yielded no candidate; the
\* search ends on the first class that yields one, which is the block
\* served; and the provider is asked to grow only when the search went up to
\* class 23 and that class yielded none either.
C17_ProbeOrder ==
    [][/\ (last'.op = "malloc" /\ last'.size > 0 /\ initialized) => last'.probes # <<>>
       /\ last'.probes # <<>> =>
            LET P == last'.probes
                n == Len(last'.probes)
            IN  /\ P[1] = calculateClass_new(SearchedBytes)
                /\ \A i \in 1..(n - 1) :
                      /\ P[i + 1] - P[i] \in {1, 2}
                      /\ P[i + 1] - P[i] = 2 => (i = 1 /\ P[1] < 16)
                      /\ probeClass(mem, P[i], SearchedBytes).addr = 0
                /\ probeClass(mem, P[n], SearchedBytes).addr = last'.blk
                /\ last'.sbrk = IF last'.blk = 0 THEN 1 ELSE 0
                /\ last'.blk = 0 => P[n] = NumClasses - 1
       /\ (last'.op \in {"malloc", "realloc"} /\ last'.probes = <<>>)
            => (last'.sbrk = 0 /\ last'.blk = 0)]_vars
\* An allocate has skipped one class, gone on class by class, and been
\* served from a class further up.
C17_Witness ==
    /\ Ready
    /\ last.op = "malloc" /\ last.blk # 0
    /\ Len(last.probes) >= 3
    /\ last.probes[2] = last.probes[1] + 2
    /\ last.probes[3] = last.probes[2] + 1

\* ---- C18
\* This step is an allocate served from a range class.
RangeServedStep ==
    /\ last'.op \in {"malloc", "realloc"}
    /\ last'.blk # 0
    /\ last'.probes[Len(last'.probes)] >= 16
\* The positions in the list of the blocks of exactly n bytes.
ExactAt(m, list, n) == {i \in 1..Len(list) : getLength(m, list[i]) = n}
\* C18: a block served from a range class is a member of that class's list of
\* at least the padded size; no member that also fits is strictly smaller;
\* and if the list holds blocks of exactly the padded size, the first of them
\* in list order is the one served.
C18_BestFit ==
    [][RangeServedStep =>
          LET list == ClassList(mem, last'.probes[Len(last'.probes)])
              b == last'.blk
          IN  /\ OccIn(list, b) = 1
              /\ last'.blkLen = getLength(mem, b)
              /\ getLength(mem, b) >= SearchedBytes
              /\ \A i \in 1..Len(list) :
                    getLength(mem, list[i]) >= SearchedBytes
                        => getLength(mem, list[i]) >= getLength(mem, b)
              /\ ExactAt(mem, list, SearchedBytes) # {}
                    => b = list[SetMin(ExactAt(mem, list, SearchedBytes))]]_vars
\* An allocate has been served from a range class by a block larger than it
\* needed, while a still larger block of the class was left in its list.
C18_Witness ==
    /\ Ready
    /\ last.op = "malloc" /\ last.blk # 0
    /\ last.probes[Len(last.probes)] >= 16
    /\ last.blkLen > align_new(last.size)
    /\ \E i \in 1..Len(ClassList(mem, last.probes[Len(last.probes)])) :
          getLength(mem, ClassList(mem, last.probes[Len(last.probes)])[i]) > last.blkLen

\* ---- C19
\* This step is a resize of a live block to a size its block already holds.
InPlaceStep ==
    /\ last'.op = "realloc" /\ last'.arg \in Ptrs /\ last'.size >= 1
    /\ SearchedBytes <= getLength(mem, last'.arg - WORDSIZE)
\* C19: such a resize returns the pointer it was given and asks for no
\* growth; if the padded size is the block's size, no word changes; if it is
\* smaller, the block keeps its address and both flags and gets the padded
\* size, and right after it stands a free block made of the cut-off tail,
\* together with the right neighbour when that was free.
C19_InPlaceResize ==
    [][InPlaceStep =>
          LET p == last'.arg
              cur == getLength(mem, p - WORDSIZE)
              tail == p + SearchedBytes
              right == p + cur
              cut == cur - SearchedBytes - WORDSIZE
          IN  /\ last'.ret = p /\ last'.sbrk = 0 /\ Len(mem') = Len(mem)
              /\ SearchedBytes = cur => mem' = mem
              /\ SearchedBytes < cur =>
                    /\ getCurrAllocated(mem', p - WORDSIZE)
                    /\ getLeftAllocated(mem', p - WORDSIZE) = getLeftAllocated(mem, p - WORDSIZE)
                    /\ getLength(mem', p - WORDSIZE) = SearchedBytes
                    /\ tail \in FreeBlocks(mem')
                    /\ getLength(mem', tail) =
                          IF IsFree(mem, right)
                          THEN cut + WORDSIZE + getLength(mem, right)
                          ELSE cut]_vars
\* A resize has shrunk a block in place and the cut-off tail (24 bytes or
\* more) has merged with the free right neighbour, whose old header is still
\* to be seen inside the merged block.
C19_Witness ==
    /\ Ready
    /\ last.op = "realloc" /\ last.arg # NULL /\ last.ret = last.arg /\ last.size >= 1
    /\ last.arg + align_new(last.size) \in FreeBlocks(mem)
    /\ LET tail == last.arg + align_new(last.size)
       IN  \E k \in 4..(getLength(mem, tail) \div WORDSIZE - 1) :
              LET old == tail + WORDSIZE * k
              IN  /\ ~getCurrAllocated(mem, old)
                  /\ getLength(mem, old) >= WORDSIZE
                  /\ old + getLength(mem, old) = tail + getLength(mem, tail)

\* ---- C20
\* This step is a resize that shrinks a live block in place.
ShrinkStep == InPlaceStep /\ SearchedBytes < getLength(mem, last'.arg - WORDSIZE)
\* The header, link and footer words of a free block b of m.
MetaWords(m, b) ==
    IF getLength(m, b) > WORDSIZE
    THEN {b, b + WORDSIZE, b + 2 * WORDSIZE, b + getLength(m, b)}
    ELSE {b, b + getLength(m, b)}
\* C20: after a shrinking resize, every free block that releasing the
\* remainder produced is still a free block with the same header, prev, next
\* and footer words, and all class heads are the same; when the remainder
\* merged with a free right neighbour, the address of the last flag write
\* lies inside the merged block, on its next field for an 8-byte remainder.
C20_FlagWriteHarmless ==
    [][ShrinkStep =>
          LET p == last'.arg
              released == shrinkReleased(mem, p, last'.size)
              tail == p + SearchedBytes
              right == p + getLength(mem, p - WORDSIZE)
              cut == right - tail - WORDSIZE
          IN  /\ Len(mem') = Len(released)
              /\ FreeBlocks(mem') = FreeBlocks(released)
              /\ \A b \in FreeBlocks(released) :
                    \A a \in MetaWords(released, b) : Rd(mem', a) = Rd(released, a)
              /\ \A c \in Classes : Rd(mem', heap_start + c * WORDSIZE) = Rd(released, heap_start + c * WORDSIZE)
              /\ IsFree(mem, right) =>
                    /\ tail < right /\ right < tail + getLength(mem', tail)
                    /\ cut = WORDSIZE => right = tail + 2 * WORDSIZE]_vars
\* A resize has cut 8 bytes off a block, the 8 bytes have merged with the
\* free right neighbour, and the merged block has a successor in its list,
\* so the last flag write went over a non-null next field.
C20_Witness ==
    /\ Ready
    /\ last.op = "realloc" /\ last.arg # NULL /\ last.ret = last.arg /\ last.size >= 1
    /\ last.original_length = align_new(last.size) + 2 * WORDSIZE
    /\ LET tail == last.arg + align_new(last.size)
       IN  /\ tail \in FreeBlocks(mem)
           /\ getLength(mem, tail) > WORDSIZE
           /\ nextOf(mem, tail) # NULL

====
